---- MODULE Spec2Model ----
(***************************************************************************)
(* The widgets of gobang: the table viewer (src/components/table.rs) with  *)
(* its cursor, its selection rectangle, its column window and the width    *)
(* computation; the autocomplete popup (src/components/completion.rs) and  *)
(* the error dialog (src/components/error.rs).                             *)
(*                                                                         *)
(* A String is a sequence of characters, an ASCII character written as a   *)
(* one-character string.  An Option is a sequence of length at most one:   *)
(* None is <<>> and Some(v) is <<v>>.                                      *)
(* Indices are 0-based as in the source; a Vec v is a sequence and v[i] of *)
(* the source is v[i + 1] here.                                            *)
(***************************************************************************)
EXTENDS Integers, Sequences, FiniteSets, TLC

\* the fields of TableComponent
VARIABLES headers, rows, eod, selected_row, selected_column,
          selection_area_corner, column_page_start
\* the fields of CompletionComponent (state is state.selected()) and of
\* ErrorComponent
VARIABLES word, candidates, state, error
\* whether the build checks integer overflow (a debug build panics on it, a
\* release build wraps)
VARIABLE overflow_checks
\* history: the last operation, the fields before it, what it returned, and
\* the band of the last width computation while at most one column key has
\* moved the cursor since
VARIABLES op, pre, ret, drawn

vars == <<headers, rows, eod, selected_row, selected_column,
          selection_area_corner, column_page_start,
          word, candidates, state, error, overflow_checks,
          op, pre, ret, drawn>>

(***************************************************************************)
(* Bounds of the model.                                                    *)
(***************************************************************************)
\* the viewport widths handed to the width computation are the multiples of
\* WidthStep up to WidthStep * MaxWidthSteps
WidthStep == 5
MaxWidthSteps == 5
\* number of rows of the tall grid (more than one page-down step)
TallRows == 12
\* number of columns of the wide grid
WideCols == 4

(***************************************************************************)
(* Option, arithmetic and String helpers.                                  *)
(***************************************************************************)
None == <<>>
Some(v) == <<v>>
IsSome(o) == Len(o) = 1
Unwrap(o) == o[1]

Min2(a, b) == IF a <= b THEN a ELSE b
Max2(a, b) == IF a >= b THEN a ELSE b
\* usize::saturating_sub
SatSub(a, b) == IF a >= b THEN a - b ELSE 0
Clamp(v, lo, hi) == IF v < lo THEN lo ELSE IF v > hi THEN hi ELSE v

\* the String made of n copies of the character ch
Rep(ch, n) == [i \in 1..n |-> ch]

\* characters that occupy two terminal cells (UnicodeWidthChar::width = 2),
\* written by their code points
WideChars == {"U+65E5", "U+672C"}
CharWidth(ch) == IF ch \in WideChars THEN 2 ELSE 1

RECURSIVE Width(_)
\* UnicodeWidthStr::width: the sum of the display widths of the characters
Width(s) == IF s = <<>> THEN 0 ELSE CharWidth(Head(s)) + Width(Tail(s))

Digit(d) == <<"0", "1", "2", "3", "4", "5", "6", "7", "8", "9">>[d + 1]

RECURSIVE to_string(_)
\* usize::to_string: the decimal digits, most significant first
to_string(n) == IF n < 10 THEN <<Digit(n)>>
               ELSE to_string(n \div 10) \o <<Digit(n % 10)>>

RECURSIVE Join(_, _)
\* [String]::join(sep)
Join(strs, sep) ==
    IF strs = <<>> THEN <<>>
    ELSE IF Len(strs) = 1 THEN strs[1]
    ELSE strs[1] \o sep \o Join(Tail(strs), sep)

\* v[left..right] of a Vec, 0-based and half open; the caller checks the range
Slice(v, left, right) == SubSeq(v, left + 1, right)
\* the range check of v[left..right]: a failed check panics
SliceOk(v, left, right) == left <= right /\ right <= Len(v)

(***************************************************************************)
(* The grids a viewer is constructed from.  Every row has headers.len()    *)
(* cells.                                                                  *)
(***************************************************************************)
\* the grid of the unit tests (test_calculate_cell_widths, first part)
GridExample ==
    [headers |-> << <<"1">>, <<"2">>, <<"3">> >>,
     rows |-> << << Rep("a", 5), Rep("b", 5), Rep("c", 5) >>,
                 << <<"d">>, <<"e">>, <<"f">> >> >>]

\* headers but no rows (a query with an empty result)
GridNoRows ==
    [headers |-> << <<"i", "d">>, <<"n", "a", "m", "e">> >>, rows |-> << >>]

\* TableComponent::default(): no headers, no rows
GridDefault == [headers |-> << >>, rows |-> << >>]

\* rows of no cells under no headers
GridNoHeaders == [headers |-> << >>, rows |-> << << >> >>]

\* a tall grid: more rows than one page step, two-digit row numbers
GridTall ==
    [headers |-> << <<"n">> >>,
     rows |-> [r \in 1..TallRows |-> << to_string(r) >>]]

\* content widths of the columns of the wide grid, repeating
WidePattern == <<2, 7, 4, 25, 3, 9>>
WideWidth(c) == WidePattern[((c - 1) % Len(WidePattern)) + 1]

\* a wide grid: columns narrower than 3, wider than 20, a header wider than
\* its cells and cells of double-width characters
GridWide ==
    [headers |-> [c \in 1..WideCols |->
                    IF c % 2 = 0 THEN Rep("h", 5) ELSE <<"h">>],
     rows |-> << [c \in 1..WideCols |-> Rep("w", WideWidth(c))],
                 [c \in 1..WideCols |->
                    IF c = 1 THEN <<"U+65E5", "U+672C">> ELSE <<"z">>] >>]

\* one row of three columns: a header wider than its cell, a column
\* narrower than 3 and a column wider than 20
GridClamped ==
    [headers |-> << Rep("h", 6), <<"x">>, <<"y">> >>,
     rows |-> << << Rep("a", 2), <<"b">>, Rep("c", 25) >> >>]

Grids == {GridExample, GridNoRows, GridDefault, GridNoHeaders, GridTall,
          GridWide, GridClamped}

AreaWidths == {WidthStep * k : k \in 0..MaxWidthSteps}

(***************************************************************************)
(* Return values.                                                          *)
(***************************************************************************)
Consumed == "Consumed"
NotConsumed == "NotConsumed"
\* the outcome of an operation: it returned v, or it panicked (index or slice
\* out of range, arithmetic overflow) and the program is aborted
Ok(v) == [kind |-> "ok", v |-> v]
Panic == [kind |-> "panic"]
\* the return of an operation of type ()
Unit == "()"

\* tui::layout::Constraint
Length(w) == [kind |-> "Length", v |-> w]
Min(w) == [kind |-> "Min", v |-> w]

\* the fields of the viewer an operation may change
State == [selected_row |-> selected_row,
          selected_column |-> selected_column,
          selection_area_corner |-> selection_area_corner,
          column_page_start |-> column_page_start,
          eod |-> eod]

(***************************************************************************)
(* TableComponent::new and the keys of TableComponent::event.              *)
(***************************************************************************)
\* TableComponent::new(rows, headers)
New(g) ==
    /\ headers = g.headers
    /\ rows = g.rows
    /\ selected_row = IF g.rows # <<>> THEN Some(0) ELSE None
    /\ selected_column = 0
    /\ selection_area_corner = None
    /\ column_page_start = 0
    /\ eod = FALSE

\* What every operation does: a panicked program takes no further step, the
\* grid is never changed, and pre records the fields before the operation.
Begin ==
    /\ ret.kind = "ok"
    /\ pre' = State
    /\ UNCHANGED <<headers, rows>>
    /\ UNCHANGED <<word, candidates, state, error, overflow_checks>>

\* the values of the history variable drawn: no band, or the band
\* [far_left, far_right) a width computation at area_width returned,
\* whether its last column is flexible, how many column keys have moved the
\* cursor since (0 or 1), and the band before it when that band was one
\* cursor move ago and computed at the same width
NoBand == [kind |-> "none"]
Band(w, l, r, f, k, b) ==
    [kind |-> "band", area_width |-> w, far_left |-> l, far_right |-> r,
     flexible |-> f, keys |-> k, before |-> b]

\* the history variable drawn after an operation (the last conjunct of every
\* operation of the table viewer)
RecordBand ==
    drawn' =
        IF /\ op'.name = "calculate_cell_widths"
           /\ ret'.kind = "ok"
           /\ rows # <<>>
        THEN Band(op'.area_width, ret'.v.far_left, ret'.v.far_right,
                  ret'.v.constraints[Len(ret'.v.constraints)].kind = "Min",
                  0,
                  IF /\ drawn.kind = "band"
                     /\ drawn.keys = 1
                     /\ drawn.area_width = op'.area_width
                  THEN <<[far_left |-> drawn.far_left,
                          far_right |-> drawn.far_right,
                          flexible |-> drawn.flexible]>>
                  ELSE <<>>)
        ELSE IF /\ op'.name = "event"
                /\ op'.key \in {"h", "l"}
                /\ selected_column' # selected_column
                /\ drawn.kind = "band"
                /\ drawn.keys = 0
        THEN [drawn EXCEPT !.keys = 1, !.before = <<>>]
        ELSE NoBand

\* fn reset: the new value of selection_area_corner
reset == None

\* next_row without the clamp to the last row
next_row_unclamped(lines) ==
    IF IsSome(selected_row)
    THEN Some(Unwrap(selected_row) + lines)
    ELSE None

\* fn next_row(lines): the new selected_row
next_row(lines) ==
    IF IsSome(selected_row)
    THEN LET i == Unwrap(selected_row) IN
         IF i + lines >= Len(rows)
         THEN Some(Len(rows) - 1)
         ELSE Some(i + lines)
    ELSE None

\* rows.len() - 1 of next_row overflows when a row is selected in an empty Vec
next_row_overflows(lines) ==
    IsSome(selected_row) /\ Len(rows) = 0

\* previous_row that always steps by one row
previous_row_single_step(lines) ==
    IF IsSome(selected_row)
    THEN LET i == Unwrap(selected_row) IN
         IF i <= 1 THEN Some(0) ELSE Some(i - 1)
    ELSE None

\* fn previous_row(lines): the new selected_row
previous_row(lines) ==
    IF IsSome(selected_row)
    THEN LET i == Unwrap(selected_row) IN
         IF i <= lines THEN Some(0) ELSE Some(i - lines)
    ELSE None

\* the step of a move key (j, k) and of a page key (Ctrl-d, Ctrl-u)
MoveLines == 1
PageLines == 10

\* j and Ctrl-d: next_row(lines) then return NotConsumed
NextRowKey(key, lines) ==
    /\ Begin
    /\ op' = [name |-> "event", key |-> key]
    /\ IF next_row_overflows(lines)
       THEN /\ ret' = Panic
            /\ UNCHANGED <<selected_row, selection_area_corner>>
       ELSE /\ selection_area_corner' = reset
            /\ selected_row' = next_row(lines)
            /\ ret' = Ok(NotConsumed)
    /\ UNCHANGED <<selected_column, column_page_start, eod>>
    /\ RecordBand

\* k and Ctrl-u: previous_row(lines) then return Consumed
PreviousRowKey(key, lines) ==
    /\ Begin
    /\ op' = [name |-> "event", key |-> key]
    /\ selection_area_corner' = reset
    /\ selected_row' = previous_row(lines)
    /\ ret' = Ok(Consumed)
    /\ UNCHANGED <<selected_column, column_page_start, eod>>
    /\ RecordBand

\* g: scroll_top
ScrollTopKey ==
    /\ Begin
    /\ op' = [name |-> "event", key |-> "g"]
    /\ IF rows = <<>>
       THEN UNCHANGED <<selection_area_corner, selected_row>>
       ELSE /\ selection_area_corner' = reset
            /\ selected_row' = Some(0)
    /\ ret' = Ok(Consumed)
    /\ UNCHANGED <<selected_column, column_page_start, eod>>
    /\ RecordBand

\* G: scroll_bottom
ScrollBottomKey ==
    /\ Begin
    /\ op' = [name |-> "event", key |-> "G"]
    /\ IF rows = <<>>
       THEN UNCHANGED <<selection_area_corner, selected_row>>
       ELSE /\ selection_area_corner' = reset
            /\ selected_row' = Some(Len(rows) - 1)
    /\ ret' = Ok(Consumed)
    /\ UNCHANGED <<selected_column, column_page_start, eod>>
    /\ RecordBand

\* l: next_column
NextColumnKey ==
    /\ Begin
    /\ op' = [name |-> "event", key |-> "l"]
    /\ IF rows = <<>>
       THEN UNCHANGED <<selection_area_corner, selected_column>>
       ELSE IF selected_column >= SatSub(Len(headers), 1)
       THEN UNCHANGED <<selection_area_corner, selected_column>>
       ELSE /\ selection_area_corner' = reset
            /\ selected_column' = selected_column + 1
    /\ ret' = Ok(Consumed)
    /\ UNCHANGED <<selected_row, column_page_start, eod>>
    /\ RecordBand

\* h: previous_column
PreviousColumnKey ==
    /\ Begin
    /\ op' = [name |-> "event", key |-> "h"]
    /\ IF rows = <<>>
       THEN UNCHANGED <<selection_area_corner, selected_column>>
       ELSE IF selected_column = 0
       THEN UNCHANGED <<selection_area_corner, selected_column>>
       ELSE /\ selection_area_corner' = reset
            /\ selected_column' = selected_column - 1
    /\ ret' = Ok(Consumed)
    /\ UNCHANGED <<selected_row, column_page_start, eod>>
    /\ RecordBand

\* the rectangle anchor the extend keys start from: the existing one, or one
\* set at the cursor (row 0 when no row is selected)
AnchorOrCursor ==
    IF selection_area_corner = None
    THEN <<selected_column,
           IF IsSome(selected_row) THEN Unwrap(selected_row) ELSE 0>>
    ELSE Unwrap(selection_area_corner)

\* expand_selected_area_x without the clamp to the last column
expand_selected_area_x_unclamped(positive) ==
    LET x == AnchorOrCursor[1]
        y == AnchorOrCursor[2]
    IN Some(<<IF positive THEN x + 1 ELSE SatSub(x, 1), y>>)

\* fn expand_selected_area_x(positive): the new selection_area_corner
expand_selected_area_x(positive) ==
    LET x == AnchorOrCursor[1]
        y == AnchorOrCursor[2]
    IN Some(<<IF positive
              THEN Min2(x + 1, SatSub(Len(headers), 1))
              ELSE SatSub(x, 1),
              y>>)

\* fn expand_selected_area_y(positive): the new selection_area_corner
expand_selected_area_y(positive) ==
    LET x == AnchorOrCursor[1]
        y == AnchorOrCursor[2]
    IN Some(<<x,
              IF positive
              THEN Min2(y + 1, SatSub(Len(rows), 1))
              ELSE SatSub(y, 1)>>)

\* H and L: expand_selected_area_x(false / true)
ExpandXKey(key, positive) ==
    /\ Begin
    /\ op' = [name |-> "event", key |-> key]
    /\ selection_area_corner' = expand_selected_area_x(positive)
    /\ ret' = Ok(Consumed)
    /\ UNCHANGED <<selected_row, selected_column, column_page_start, eod>>
    /\ RecordBand

\* K and J: expand_selected_area_y(false / true)
ExpandYKey(key, positive) ==
    /\ Begin
    /\ op' = [name |-> "event", key |-> key]
    /\ selection_area_corner' = expand_selected_area_y(positive)
    /\ ret' = Ok(Consumed)
    /\ UNCHANGED <<selected_row, selected_column, column_page_start, eod>>
    /\ RecordBand

\* keys the match of event() has no arm for
OtherKeys == {"x"}

\* any other key: the match falls through
OtherKey(key) ==
    /\ Begin
    /\ op' = [name |-> "event", key |-> key]
    /\ ret' = Ok(NotConsumed)
    /\ UNCHANGED <<selected_row, selected_column, selection_area_corner,
                   column_page_start, eod>>
    /\ RecordBand

\* end() that also drops the rectangle
End_drops_rectangle ==
    /\ Begin
    /\ op' = [name |-> "end"]
    /\ eod' = TRUE
    /\ selection_area_corner' = None
    /\ ret' = Ok(Unit)
    /\ UNCHANGED <<selected_row, selected_column, column_page_start>>
    /\ RecordBand

\* fn end
End ==
    /\ Begin
    /\ op' = [name |-> "end"]
    /\ eod' = TRUE
    /\ ret' = Ok(Unit)
    /\ UNCHANGED <<selected_row, selected_column, selection_area_corner,
                   column_page_start>>
    /\ RecordBand

(***************************************************************************)
(* selected_cells                                                          *)
(***************************************************************************)
Comma == <<",">>
Newline == <<"\n">>

\* lines 174-185 of selected_cells, a rectangle being set: Ok of an
\* Option<String>, or Panic when a slice is out of range
RectangleCells ==
    LET x == Unwrap(selection_area_corner)[1]
        y == Unwrap(selection_area_corner)[2]
    IN IF selected_row = None THEN Ok(None)
       ELSE LET selected_row_index == Unwrap(selected_row)
                top == Min2(y, selected_row_index)
                bottom == Max2(y, selected_row_index) + 1
                left == Min2(x, selected_column)
                right == Max2(x, selected_column) + 1
            IN IF ~SliceOk(rows, top, bottom) THEN Panic
               ELSE LET picked == Slice(rows, top, bottom) IN
                    IF \E k \in 1..Len(picked) :
                           ~SliceOk(picked[k], left, right)
                    THEN Panic
                    ELSE Ok(Some(Join([k \in 1..Len(picked) |->
                                         Join(Slice(picked[k], left, right),
                                              Comma)],
                                      Newline)))

\* the single cell looked up with the row and the column exchanged
SingleCell_transposed ==
    IF selected_row = None THEN Ok(None)
    ELSE IF selected_column >= Len(rows) THEN Ok(None)
    ELSE IF Unwrap(selected_row) >= Len(rows[selected_column + 1])
    THEN Ok(None)
    ELSE Ok(Some(rows[selected_column + 1][Unwrap(selected_row) + 1]))

\* lines 186-189 of selected_cells, no rectangle being set
SingleCell ==
    IF selected_row = None THEN Ok(None)
    ELSE IF Unwrap(selected_row) >= Len(rows) THEN Ok(None)
    ELSE IF selected_column >= Len(rows[Unwrap(selected_row) + 1])
    THEN Ok(None)
    ELSE Ok(Some(rows[Unwrap(selected_row) + 1][selected_column + 1]))

\* fn selected_cells
selected_cells ==
    IF selection_area_corner # None THEN RectangleCells ELSE SingleCell

\* a call of selected_cells (draw shows its value above the grid)
SelectedCells ==
    /\ Begin
    /\ op' = [name |-> "selected_cells"]
    /\ ret' = selected_cells
    /\ UNCHANGED <<selected_row, selected_column, selection_area_corner,
                   column_page_start, eod>>
    /\ RecordBand

(***************************************************************************)
(* calculate_cell_widths                                                   *)
(***************************************************************************)
\* fn selected_column_index: the anchor's column when a rectangle is set
selected_column_index ==
    IF selection_area_corner # None
    THEN Unwrap(selection_area_corner)[1]
    ELSE selected_column

\* (self.rows.len() + 1).to_string().width()
number_column_width == Width(to_string(Len(rows) + 1))

\* area_width.saturating_sub(number_column_width)
Budget(area_width) == SatSub(area_width, number_column_width)

RECURSIVE SumWidths(_)
\* widths.iter().map(|(_, width)| width).sum()
SumWidths(widths) ==
    IF widths = <<>> THEN 0 ELSE Head(widths)[2] + SumWidths(Tail(widths))

RECURSIVE MaxOf(_)
\* Iterator::max of a non-empty sequence of numbers
MaxOf(ns) ==
    IF Len(ns) = 1 THEN ns[1] ELSE Max2(Head(ns), MaxOf(Tail(ns)))

\* row.get(column_index).map_or(String::new(), ..).width() for every row
CellWidths(column_index) ==
    [k \in 1..Len(rows) |->
        IF column_index < Len(rows[k])
        THEN Width(rows[k][column_index + 1])
        ELSE 0]

\* the width of the header of a column, 3 when there is no such header
HeaderWidthOr3(column_index) ==
    IF column_index < Len(headers)
    THEN Width(headers[column_index + 1])
    ELSE 3

\* the lower and the upper limit of a column's width
MinLength == 3
MaxLength == 20

\* let length = .. of the leftward loop
LeftLength(column_index) ==
    IF rows = <<>> THEN 3
    ELSE Clamp(Max2(MaxOf(CellWidths(column_index)),
                    HeaderWidthOr3(column_index)),
               MinLength, MaxLength)

\* the length of the rightward loop without the clamp
RightLength_unclamped(column_index) ==
    IF rows = <<>> THEN 3
    ELSE Max2(MaxOf(CellWidths(column_index)),
              HeaderWidthOr3(column_index))

\* let length = .. of the rightward loop
RightLength(column_index) ==
    IF rows = <<>> THEN 3
    ELSE Clamp(Max2(MaxOf(CellWidths(column_index)),
                    HeaderWidthOr3(column_index)),
               MinLength, MaxLength)

RECURSIVE LeftLoop(_, _, _, _)
\* the first loop, entered with column_index and widths: the columns from
\* the selected one down to the window start, while they fit
LeftLoop(column_index, widths, page_start, area_width) ==
    LET length == LeftLength(column_index) IN
    IF SumWidths(widths) + length + Len(widths) >= Budget(area_width)
    THEN [column_index |-> column_index + 1, widths |-> widths,
          panic |-> FALSE]
    ELSE IF column_index >= Len(headers)
    THEN \* self.headers[column_index]
         [column_index |-> column_index, widths |-> widths, panic |-> TRUE]
    ELSE LET pushed == Append(widths, <<headers[column_index + 1], length>>)
         IN IF column_index = page_start
            THEN [column_index |-> column_index, widths |-> pushed,
                  panic |-> FALSE]
            ELSE IF column_index = 0
            THEN \* column_index -= 1
                 [column_index |-> column_index, widths |-> pushed,
                  panic |-> TRUE]
            ELSE LeftLoop(column_index - 1, pushed, page_start, area_width)

\* Vec::reverse
Reverse(v) == [k \in 1..Len(v) |-> v[Len(v) + 1 - k]]

RECURSIVE RightLoop_without_budget(_, _, _)
\* the second loop without the test of the budget: every column right of
\* the selected one
RightLoop_without_budget(column_index, widths, area_width) ==
    IF column_index < Len(headers)
    THEN RightLoop_without_budget(column_index + 1,
                                  Append(widths,
                                         <<headers[column_index + 1],
                                           RightLength(column_index)>>),
                                  area_width)
    ELSE [column_index |-> column_index, widths |-> widths]

RECURSIVE RightLoop(_, _, _)
\* the second loop: the columns right of the selected one, while they fit
RightLoop(column_index, widths, area_width) ==
    IF SumWidths(widths) + Len(widths) <= Budget(area_width)
    THEN IF column_index < Len(headers)
         THEN RightLoop(column_index + 1,
                        Append(widths, <<headers[column_index + 1],
                                         RightLength(column_index)>>),
                        area_width)
         ELSE [column_index |-> column_index, widths |-> widths]
    ELSE [column_index |-> column_index, widths |-> widths]

\* the test made on the cursor column instead of selected_column_index()
HasFlexibleColumn_cursor ==
    selected_column # SatSub(Len(headers), 1)

\* the selected column is not the last one: the last width is popped and a
\* Min(10) constraint is pushed
HasFlexibleColumn ==
    selected_column_index # SatSub(Len(headers), 1)

\* Vec::pop: nothing is removed from an empty Vec
Pop(v) == IF v = <<>> THEN v ELSE SubSeq(v, 1, Len(v) - 1)

\* the width of the flexible trailing column
FlexibleMin == 10

\* the first component of the returned tuple
ReturnedIndex(index_in_band) ==
    IF selection_area_corner = None
    THEN index_in_band + 1
    ELSE LET x == Unwrap(selection_area_corner)[1] IN
         IF x > selected_column
         THEN SatSub(index_in_band + 1, SatSub(x, selected_column))
         ELSE index_in_band + 1 + SatSub(selected_column, x)

\* fn headers(left, right), the range checked by the caller
VisibleHeaders(left, right) == <<<<>>>> \o Slice(headers, left, right)

\* fn rows with the rows numbered from 0
VisibleRows_from_zero(left, right) ==
    [k \in 1..Len(rows) |->
        <<to_string(k - 1)>> \o Slice(rows[k], left, right)]

\* fn rows(left, right), the range checked by the caller
VisibleRows(left, right) ==
    [k \in 1..Len(rows) |-> <<to_string(k)>> \o Slice(rows[k], left, right)]

\* Finish with the right end of the band stored as the window start
Finish_stores_far_right(far_left, far_right, index_in_band, widths) ==
    IF \/ ~SliceOk(headers, far_left, far_right)
       \/ \E k \in 1..Len(rows) : ~SliceOk(rows[k], far_left, far_right)
    THEN [ret |-> Panic, column_page_start |-> far_left]
    ELSE [ret |-> Ok([index |-> ReturnedIndex(index_in_band),
                      headers |-> VisibleHeaders(far_left, far_right),
                      rows |-> VisibleRows(far_left, far_right),
                      constraints |->
                          <<Length(number_column_width)>>
                          \o [k \in 1..Len(widths) |-> Length(widths[k][2])]
                          \o (IF HasFlexibleColumn
                              THEN <<Min(FlexibleMin)>> ELSE <<>>),
                      far_left |-> far_left,
                      far_right |-> far_right]),
          column_page_start |-> far_right]

\* lines 341-365: the constraints, the store into column_page_start and the
\* returned tuple, given the band [far_left_column_index,
\* far_right_column_index) and the fixed widths
Finish(far_left, far_right, index_in_band, widths) ==
    IF \/ ~SliceOk(headers, far_left, far_right)
       \/ \E k \in 1..Len(rows) : ~SliceOk(rows[k], far_left, far_right)
    THEN [ret |-> Panic, column_page_start |-> far_left]
    ELSE [ret |-> Ok([index |-> ReturnedIndex(index_in_band),
                      headers |-> VisibleHeaders(far_left, far_right),
                      rows |-> VisibleRows(far_left, far_right),
                      constraints |->
                          <<Length(number_column_width)>>
                          \o [k \in 1..Len(widths) |-> Length(widths[k][2])]
                          \o (IF HasFlexibleColumn
                              THEN <<Min(FlexibleMin)>> ELSE <<>>),
                      far_left |-> far_left,
                      far_right |-> far_right]),
          column_page_start |-> far_left]

\* the right end of the band taken one column short
AfterRightLoop_one_short(far_left_column_index, index_in_band, right) ==
    Finish(far_left_column_index, right.column_index - 1, index_in_band,
           IF HasFlexibleColumn THEN Pop(right.widths) ELSE right.widths)

\* lines 337-340: the pop of the last width, given the result of the
\* rightward loop
AfterRightLoop(far_left_column_index, index_in_band, right) ==
    Finish(far_left_column_index, right.column_index, index_in_band,
           IF HasFlexibleColumn THEN Pop(right.widths) ELSE right.widths)

\* lines 299-336: reverse, far_left, the index in the band and the rightward
\* loop, given the result of the leftward loop
AfterLeftLoop(left, page_start, area_width) ==
    IF left.panic
    THEN [ret |-> Panic, column_page_start |-> page_start]
    ELSE AfterRightLoop(left.column_index,
                        SatSub(Len(left.widths), 1),
                        RightLoop(selected_column_index + 1,
                                  Reverse(left.widths), area_width))

\* the leftward loop stopped at the column the band is built around, the
\* window start being forgotten
FromPageStart_at_cursor(page_start, area_width) ==
    AfterLeftLoop(LeftLoop(selected_column_index, <<>>,
                           selected_column_index, area_width),
                  selected_column_index, area_width)

\* lines 258-298: the reset of the window start, given its new value, and
\* the leftward loop
FromPageStart(page_start, area_width) ==
    AfterLeftLoop(LeftLoop(selected_column_index, <<>>, page_start,
                           area_width),
                  page_start, area_width)

\* calculate_cell_widths without the early return of lines 255-257
calculate_cell_widths_without_early_return(area_width) ==
    FromPageStart(IF selected_column_index < column_page_start
                  THEN selected_column_index
                  ELSE column_page_start,
                  area_width)

\* fn calculate_cell_widths(area_width): the outcome (the returned tuple with
\* the band [far_left, far_right) it was sliced from, or a panic) and the
\* value column_page_start is left with
calculate_cell_widths(area_width) ==
    IF rows = <<>>
    THEN [ret |-> Ok([index |-> 0, headers |-> <<>>, rows |-> <<>>,
                      constraints |-> <<>>,
                      far_left |-> 0, far_right |-> 0]),
          column_page_start |-> column_page_start]
    ELSE FromPageStart(IF selected_column_index < column_page_start
                       THEN selected_column_index
                       ELSE column_page_start,
                       area_width)

\* a call of calculate_cell_widths (draw calls it once a frame)
CalculateCellWidths(area_width) ==
    /\ Begin
    /\ op' = [name |-> "calculate_cell_widths", area_width |-> area_width]
    /\ \E result \in {calculate_cell_widths(area_width)} :
          /\ ret' = result.ret
          /\ column_page_start' = result.column_page_start
    /\ UNCHANGED <<selected_row, selected_column, selection_area_corner, eod>>
    /\ RecordBand

(***************************************************************************)
(* is_selected_cell and draw                                               *)
(***************************************************************************)
\* fn is_selected_cell(row_index, column_index, selected_column_index)
is_selected_cell(row_index, column_index, index) ==
    IF selection_area_corner # None
    THEN LET x == Unwrap(selection_area_corner)[1]
             y == Unwrap(selection_area_corner)[2]
             x_in_page == SatSub(x + 1, column_page_start)
         IN /\ IsSome(selected_row)
            /\ column_index >= Max2(Min2(x_in_page, index), 1)
            /\ column_index < Max2(x_in_page, index) + 1
            /\ row_index >= Min2(y, Unwrap(selected_row))
            /\ row_index < Max2(y, Unwrap(selected_row)) + 1
    ELSE /\ IsSome(selected_row)
         /\ row_index = Unwrap(selected_row)
         /\ column_index = index

\* lines 409-412 of draw: the cells (row_index, column_index) of the visible
\* rows that are given the style of a selected cell
Highlighted(visible_rows, index) ==
    {cell \in UNION {{<<r - 1, c - 1>> : c \in 1..Len(visible_rows[r])} :
                        r \in 1..Len(visible_rows)} :
        is_selected_cell(cell[1], cell[2], index)}

\* fn draw(f, area, focused), area_width being the inner width of the table
\* block: the value shown above the grid, the width computation, and the
\* highlighting of the cells with the window start the computation has left
Draw(area_width) ==
    /\ Begin
    /\ op' = [name |-> "draw", area_width |-> area_width]
    /\ UNCHANGED <<selected_row, selected_column, selection_area_corner, eod>>
    /\ IF selected_cells = Panic
       THEN /\ ret' = Panic
            /\ UNCHANGED column_page_start
       ELSE \E result \in {calculate_cell_widths(area_width)} :
               /\ column_page_start' = result.column_page_start
               /\ IF result.ret = Panic
                  THEN ret' = Panic
                  ELSE ret' = Ok([value |-> selected_cells.v,
                                  index |-> result.ret.v.index,
                                  headers |-> result.ret.v.headers,
                                  rows |-> result.ret.v.rows,
                                  constraints |-> result.ret.v.constraints,
                                  far_left |-> result.ret.v.far_left,
                                  far_right |-> result.ret.v.far_right,
                                  highlighted |->
                                      Highlighted(result.ret.v.rows,
                                                  result.ret.v.index)'])
    /\ RecordBand

(***************************************************************************)
(* Strings of the autocomplete popup: letter case and byte length.         *)
(***************************************************************************)
LowerLetters ==
    <<"a", "b", "c", "d", "e", "f", "g", "h", "i", "j", "k", "l", "m",
      "n", "o", "p", "q", "r", "s", "t", "u", "v", "w", "x", "y", "z">>
UpperLetters ==
    <<"A", "B", "C", "D", "E", "F", "G", "H", "I", "J", "K", "L", "M",
      "N", "O", "P", "Q", "R", "S", "T", "U", "V", "W", "X", "Y", "Z">>
\* the position of the character ch in letters, 0 when it is not there
IndexOf(ch, letters) ==
    IF \E k \in 1..Len(letters) : letters[k] = ch
    THEN CHOOSE k \in 1..Len(letters) : letters[k] = ch
    ELSE 0

\* LATIN SMALL LETTER DOTLESS I, written by its code point: a letter of two
\* bytes in UTF-8 whose uppercase is the ASCII letter I
DotlessI == "U+0131"

\* char::to_uppercase (a String: the uppercase of some characters is several)
CharToUppercase(ch) ==
    IF ch = DotlessI THEN <<"I">>
    ELSE IF IndexOf(ch, LowerLetters) # 0
    THEN <<UpperLetters[IndexOf(ch, LowerLetters)]>>
    ELSE <<ch>>

\* char::to_lowercase
CharToLowercase(ch) ==
    IF IndexOf(ch, UpperLetters) # 0
    THEN <<LowerLetters[IndexOf(ch, UpperLetters)]>>
    ELSE <<ch>>

RECURSIVE to_uppercase(_)
\* str::to_uppercase
to_uppercase(s) ==
    IF s = <<>> THEN <<>>
    ELSE CharToUppercase(Head(s)) \o to_uppercase(Tail(s))

RECURSIVE to_lowercase(_)
\* str::to_lowercase
to_lowercase(s) ==
    IF s = <<>> THEN <<>>
    ELSE CharToLowercase(Head(s)) \o to_lowercase(Tail(s))

\* char::len_utf8
len_utf8(ch) == IF ch = DotlessI THEN 2 ELSE 1

RECURSIVE str_len(_)
\* String::len: the length in bytes
str_len(s) == IF s = <<>> THEN 0 ELSE len_utf8(Head(s)) + str_len(Tail(s))

\* str::starts_with
starts_with(s, prefix) ==
    Len(prefix) <= Len(s) /\ SubSeq(s, 1, Len(prefix)) = prefix

(***************************************************************************)
(* usize in the popup.  A usize v is written v when v < 2^63 and v - 2^64  *)
(* otherwise, so that usize::MAX is -1 and the wrapping arithmetic of a    *)
(* release build is the arithmetic of the integers.                        *)
(***************************************************************************)
usize_MAX == -1
\* a >= b on usize
UsizeGe(a, b) == IF (a < 0) = (b < 0) THEN a >= b ELSE a < 0

(***************************************************************************)
(* CompletionComponent                                                     *)
(***************************************************************************)
\* const RESERVED_WORDS
RESERVED_WORDS ==
    << <<"I", "N">>, <<"A", "N", "D">>, <<"O", "R">>, <<"N", "O", "T">>,
       <<"N", "U", "L", "L">>, <<"I", "S">> >>

\* the keys bound in key_config, named by their bindings
key_config == [move_down |-> "move_down", move_up |-> "move_up"]

\* the candidates compared with the word as it is, letter case included
filterd_candidates_case_sensitive ==
    SelectSeq(candidates,
              LAMBDA c : starts_with(c, word) /\ word # <<>>)

\* fn filterd_candidates, collected
filterd_candidates ==
    SelectSeq(candidates,
              LAMBDA c : /\ \/ starts_with(c, to_lowercase(word))
                            \/ starts_with(c, to_uppercase(word))
                         /\ word # <<>>)

\* the fields of the popup and of the dialog an operation may change
Overlays == [word |-> word, candidates |-> candidates, state |-> state,
             error |-> error]

\* What every operation of the popup and of the dialog does: a panicked
\* program takes no further step, the table viewer is not touched, and pre
\* records the fields before the operation.
BeginOverlay ==
    /\ ret.kind = "ok"
    /\ pre' = Overlays
    /\ UNCHANGED <<headers, rows, eod, selected_row, selected_column,
                   selection_area_corner, column_page_start>>
    /\ UNCHANGED <<overflow_checks, drawn>>

\* CompletionComponent::new(key_config, word)
CompletionNew(w) ==
    /\ word = w
    /\ candidates = <<>>
    /\ state = None

\* fn update(word)
Update(w) ==
    /\ BeginOverlay
    /\ op' = [name |-> "update", word |-> w]
    /\ word' = w
    /\ candidates' = RESERVED_WORDS
    /\ state' = Some(0)
    /\ ret' = Ok(Unit)
    /\ UNCHANGED error

\* self.filterd_candidates().count() - 1 in next() overflows
next_overflows == IsSome(state) /\ Len(filterd_candidates) = 0

\* next() that steps down without wrapping to the first candidate
next_without_wrap ==
    IF IsSome(state) THEN Some(Unwrap(state) + 1) ELSE Some(0)

\* fn next: the new state.selected()
next ==
    IF IsSome(state)
    THEN LET i == Unwrap(state) IN
         IF UsizeGe(i, Len(filterd_candidates) - 1)
         THEN Some(0)
         ELSE Some(i + 1)
    ELSE Some(0)

\* self.filterd_candidates().count() - 1 in previous() overflows
previous_overflows == state = Some(0) /\ Len(filterd_candidates) = 0

\* fn previous: the new state.selected()
previous ==
    IF IsSome(state)
    THEN LET i == Unwrap(state) IN
         IF i = 0
         THEN Some(Len(filterd_candidates) - 1)
         ELSE Some(i - 1)
    ELSE Some(0)

\* the indices a selection is followed to (a release build that wraps walks
\* the selection away from an empty candidate list, one step a key)
MaxSelected == 3

\* Component::event of the popup
CompletionEvent(key) ==
    /\ BeginOverlay
    /\ op' = [name |-> "completion.event", key |-> key]
    /\ IF key = key_config.move_down
       THEN IF next_overflows /\ overflow_checks
            THEN ret' = Panic /\ UNCHANGED state
            ELSE state' = next /\ ret' = Ok(Consumed)
       ELSE IF key = key_config.move_up
       THEN IF previous_overflows /\ overflow_checks
            THEN ret' = Panic /\ UNCHANGED state
            ELSE state' = previous /\ ret' = Ok(Consumed)
       ELSE ret' = Ok(NotConsumed) /\ UNCHANGED state
    /\ IsSome(state') => Unwrap(state') \in (0 - MaxSelected)..MaxSelected
    /\ UNCHANGED <<word, candidates, error>>

\* the characters of s whose index is at least n
SkipChars(s, n) == [k \in 1..SatSub(Len(s), n) |-> s[n + k]]

\* fn string_to_be_completed
string_to_be_completed ==
    IF state = None THEN None
    ELSE LET i == Unwrap(state) IN
         IF i < 0 \/ i >= Len(filterd_candidates) THEN None
         ELSE Some(SkipChars(filterd_candidates[i + 1], str_len(word))
                   \o <<" ">>)

\* a call of string_to_be_completed
StringToBeCompleted ==
    /\ BeginOverlay
    /\ op' = [name |-> "string_to_be_completed"]
    /\ ret' = Ok(string_to_be_completed)
    /\ UNCHANGED <<word, candidates, state, error>>

(***************************************************************************)
(* ErrorComponent                                                          *)
(***************************************************************************)
\* ErrorComponent::default
ErrorDefault == error = None

\* fn set(error)
ErrorSet(message) ==
    /\ BeginOverlay
    /\ op' = [name |-> "error.set", error |-> message]
    /\ error' = Some(message)
    /\ ret' = Ok(Unit)
    /\ UNCHANGED <<word, candidates, state>>

\* a handler that dismisses the dialog on a key
ErrorEvent_dismisses(key) ==
    /\ BeginOverlay
    /\ op' = [name |-> "error.event", key |-> key]
    /\ error' = None
    /\ ret' = Ok(NotConsumed)
    /\ UNCHANGED <<word, candidates, state>>

\* Component::event of the dialog
ErrorEvent(key) ==
    /\ BeginOverlay
    /\ op' = [name |-> "error.event", key |-> key]
    /\ ret' = Ok(NotConsumed)
    /\ UNCHANGED <<word, candidates, state, error>>


(***************************************************************************)
(* The specification.                                                      *)
(***************************************************************************)
\* the table viewer after construction, next to a popup and a dialog that
\* are left as constructed
Init ==
    /\ \E g \in Grids : New(g)
    /\ CompletionNew(<<>>)
    /\ ErrorDefault
    /\ overflow_checks = TRUE
    /\ op = [name |-> "new"]
    /\ ret = Ok(Unit)
    /\ pre = State
    /\ drawn = NoBand

Next ==
    \/ PreviousColumnKey
    \/ NextRowKey("j", MoveLines)
    \/ NextRowKey("Ctrl-d", PageLines)
    \/ PreviousRowKey("k", MoveLines)
    \/ PreviousRowKey("Ctrl-u", PageLines)
    \/ ScrollTopKey
    \/ ScrollBottomKey
    \/ NextColumnKey
    \/ ExpandXKey("H", FALSE)
    \/ ExpandYKey("K", FALSE)
    \/ ExpandYKey("J", TRUE)
    \/ ExpandXKey("L", TRUE)
    \/ \E key \in OtherKeys : OtherKey(key)
    \/ End
    \/ SelectedCells
    \/ \E area_width \in AreaWidths : CalculateCellWidths(area_width)

Spec == Init /\ [][Next]_vars

(***************************************************************************)
(* The table viewer as the application drives it: key events and frames.   *)
(***************************************************************************)
NextFrames ==
    \/ PreviousColumnKey
    \/ NextRowKey("j", MoveLines)
    \/ NextRowKey("Ctrl-d", PageLines)
    \/ PreviousRowKey("k", MoveLines)
    \/ PreviousRowKey("Ctrl-u", PageLines)
    \/ ScrollTopKey
    \/ ScrollBottomKey
    \/ NextColumnKey
    \/ ExpandXKey("H", FALSE)
    \/ ExpandYKey("K", FALSE)
    \/ ExpandYKey("J", TRUE)
    \/ ExpandXKey("L", TRUE)
    \/ \E key \in OtherKeys : OtherKey(key)
    \/ \E area_width \in AreaWidths : Draw(area_width)

SpecFrames == Init /\ [][NextFrames]_vars

(***************************************************************************)
(* The popup and the dialog.                                               *)
(***************************************************************************)
\* the words the popup is given
Words ==
    { <<>>, <<"a">>, <<"A", "N">>, <<"a", "n">>, <<"A", "n">>,
      <<"A", "N", "D">>, <<"A", "N", "D", "X">>, <<"n">>, <<"I">>,
      <<DotlessI>>, <<"x">> }
\* keys other than the two the popup is bound to
OtherCompletionKeys == {"Enter"}
\* the messages the dialog is given and the keys it is sent
Messages == { <<"e", "1">>, <<"e", "2">> }
ErrorKeys == {"Esc", "Enter"}

\* the popup and the dialog after construction, next to a table viewer
\* that is left as constructed
InitOverlays ==
    /\ New(GridDefault)
    /\ \E w \in Words : CompletionNew(w)
    /\ ErrorDefault
    /\ overflow_checks \in BOOLEAN
    /\ op = [name |-> "new"]
    /\ ret = Ok(Unit)
    /\ pre = Overlays
    /\ drawn = NoBand

NextOverlays ==
    \/ \E w \in Words : Update(w)
    \/ CompletionEvent(key_config.move_down)
    \/ CompletionEvent(key_config.move_up)
    \/ \E key \in OtherCompletionKeys : CompletionEvent(key)
    \/ StringToBeCompleted
    \/ \E message \in Messages : ErrorSet(message)
    \/ \E key \in ErrorKeys : ErrorEvent(key)

SpecOverlays == InitOverlays /\ [][NextOverlays]_vars

(***************************************************************************)
(* Helpers of the properties.                                              *)
(***************************************************************************)
IsEvent(keys) == op.name = "event" /\ op.key \in keys
IsWidths == op.name = "calculate_cell_widths"
IsCells == op.name = "selected_cells"
\* at least one header and at least one row
NonEmptyGrid == headers # <<>> /\ rows # <<>>

RECURSIVE Split(_, _)
\* the pieces of the String s between the occurrences of the character sep
Split(s, sep) ==
    IF s = <<>> THEN << <<>> >>
    ELSE LET rest == Split(Tail(s), sep) IN
         IF Head(s) = sep
         THEN << <<>> >> \o rest
         ELSE << <<Head(s)>> \o Head(rest) >> \o Tail(rest)

\* the cells of a copied text: its lines, each split at the commas
CellsOfText(text) ==
    LET lines == Split(text, "\n") IN
    [k \in 1..Len(lines) |-> Split(lines[k], ",")]

\* the cells of the grid in rows a..b and columns c..d (0-based, inclusive)
CellsOfGrid(a, b, c, d) ==
    [k \in 1..(b - a + 1) |-> [j \in 1..(d - c + 1) |-> rows[a + k][c + j]]]

\* the least and the greatest of two numbers, whichever comes first
Least(m, n) == CHOOSE v \in {m, n} : \A u \in {m, n} : v <= u
Greatest(m, n) == CHOOSE v \in {m, n} : \A u \in {m, n} : v >= u

(***************************************************************************)
(* C1  The cursor stays inside the grid.                                   *)
(***************************************************************************)
\* C1: on a grid with at least one header, after any sequence of key events
\* and width computations, selected_column < headers.len(), and selected_row
\* is None only when there are no rows, and otherwise Some(i), i < rows.len().
C1_CursorInGrid ==
    headers # <<>> =>
        /\ selected_column < Len(headers)
        /\ selected_row = None => rows = <<>>
        /\ IsSome(selected_row) => Unwrap(selected_row) < Len(rows)

\* a page-down that was clamped to the last row, in the last column, after
\* the window has moved
C1_Witness ==
    /\ IsEvent({"Ctrl-d"})
    /\ Len(headers) > 1
    /\ selected_column = Len(headers) - 1
    /\ column_page_start > 0
    /\ IsSome(pre.selected_row)
    /\ Unwrap(pre.selected_row) + PageLines > Len(rows) - 1
    /\ selected_row = Some(Len(rows) - 1)

(***************************************************************************)
(* C2  The visible band and the cursor column.                             *)
(***************************************************************************)
\* C2: after every width computation on a non-empty grid the returned band
\* [far_left, far_right) contains the cursor column:
\* far_left <= selected_column < far_right.
C2_BandContainsCursor ==
    (IsWidths /\ NonEmptyGrid /\ ret.kind = "ok") =>
        /\ ret.v.far_left <= selected_column
        /\ selected_column < ret.v.far_right

(***************************************************************************)
(* C3  Two width computations in a row.                                    *)
(***************************************************************************)
\* C3: in the state a width computation has left, a second computation with
\* the same viewport width returns the same tuple (index, visible headers,
\* visible rows, constraints) and leaves column_page_start as it is.
C3_WindowingIdempotent ==
    (IsWidths /\ ret.kind = "ok") =>
        calculate_cell_widths(op.area_width) =
            [ret |-> ret, column_page_start |-> column_page_start]

\* a width computation that moved the window start to the right
C3_Witness ==
    /\ IsWidths
    /\ ret.kind = "ok"
    /\ NonEmptyGrid
    /\ column_page_start > pre.column_page_start
    /\ column_page_start <= selected_column

(***************************************************************************)
(* C4  The trailing flexible column.                                       *)
(***************************************************************************)
\* the constraints end with a flexible (Min) one
EndsWithMin(constraints) ==
    constraints # <<>> /\ constraints[Len(constraints)].kind = "Min"

\* the constraints before the last one are all fixed (Length)
FixedButLast(constraints) ==
    \A k \in 1..(Len(constraints) - 1) : constraints[k].kind = "Length"

\* C4 as stated: a trailing Min constraint is emitted exactly when the
\* rightmost visible column is not the last column of the grid, so a band
\* that reaches the last header has only Length constraints.
C4_FlexibleIffBandShort ==
    (IsWidths /\ NonEmptyGrid /\ ret.kind = "ok") =>
        (EndsWithMin(ret.v.constraints) <=> ret.v.far_right # Len(headers))

\* C4 amended: a trailing Min(10) constraint is emitted exactly when the
\* column the band is built around (the anchor's column when a rectangle is
\* set, else the cursor column) is not the last column of the grid, whether
\* or not the band reaches the last header; every constraint before it is a
\* Length.  On the example grid at width 20 with the cursor in column 0 the
\* visible headers are ["", "1", "2", "3"] and the constraints are
\* [Length(1), Length(5), Length(5), Min(10)].
C4_FlexibleIffSelectedNotLast ==
    (IsWidths /\ NonEmptyGrid /\ ret.kind = "ok") =>
        /\ EndsWithMin(ret.v.constraints)
               <=> selected_column_index # Len(headers) - 1
        /\ EndsWithMin(ret.v.constraints)
               => /\ ret.v.constraints[Len(ret.v.constraints)] = Min(10)
                  /\ FixedButLast(ret.v.constraints)
        /\ ~EndsWithMin(ret.v.constraints)
               => \A k \in 1..Len(ret.v.constraints) :
                      ret.v.constraints[k].kind = "Length"
        /\ (/\ headers = GridExample.headers
            /\ rows = GridExample.rows
            /\ op.area_width = 20
            /\ selected_column_index = 0)
               => /\ ret.v.headers = << <<>>, <<"1">>, <<"2">>, <<"3">> >>
                  /\ ret.v.constraints =
                         <<Length(1), Length(5), Length(5), Min(10)>>

\* the band reaches the last header and its last column is flexible
C4_Witness ==
    /\ IsWidths
    /\ NonEmptyGrid
    /\ ret.kind = "ok"
    /\ ret.v.far_right = Len(headers)
    /\ ret.v.far_right - ret.v.far_left = 3
    /\ EndsWithMin(ret.v.constraints)

(***************************************************************************)
(* C5  selected_cells with a rectangle.                                    *)
(***************************************************************************)
\* C5: with a rectangle set and a row selected, selected_cells returns the
\* cells of the rows and columns between the anchor and the cursor, in grid
\* order, the cells of a row joined by "," and the rows by a newline,
\* whichever of the anchor and the cursor comes first on either axis.
C5_RectangleCells ==
    (IsCells /\ selection_area_corner # None /\ selected_row # None) =>
        /\ ret.kind = "ok"
        /\ IsSome(ret.v)
        /\ LET x == Unwrap(selection_area_corner)[1]
               y == Unwrap(selection_area_corner)[2]
               r == Unwrap(selected_row)
           IN CellsOfText(Unwrap(ret.v)) =
                  CellsOfGrid(Least(y, r), Greatest(y, r),
                              Least(x, selected_column),
                              Greatest(x, selected_column))

\* the same on the grids that have at least one header, where the anchor
\* and the cursor name cells of the grid
C5_RectangleCellsUnderHeaders ==
    headers # <<>> => C5_RectangleCells

\* a rectangle of two rows and two columns whose anchor is below and right
\* of the cursor
C5_RectangleRead ==
    /\ IsCells
    /\ selected_row = Some(0)
    /\ selected_column = 0
    /\ selection_area_corner = Some(<<1, 1>>)
    /\ ret.kind = "ok"
    /\ IsSome(ret.v)
    /\ Len(CellsOfText(Unwrap(ret.v))) = 2
    /\ Len(CellsOfText(Unwrap(ret.v))[1]) = 2

(***************************************************************************)
(* C6  selected_cells without a rectangle.                                 *)
(***************************************************************************)
\* C6: with no rectangle, selected_cells returns the grid cell
\* rows[selected_row][selected_column] when a row is selected and the cell
\* exists, and None when no row is selected or there is no such cell.
C6_SingleCell ==
    (IsCells /\ selection_area_corner = None) =>
        /\ ret.kind = "ok"
        /\ IF /\ selected_row # None
              /\ Unwrap(selected_row) + 1 \in DOMAIN rows
              /\ selected_column + 1
                     \in DOMAIN rows[Unwrap(selected_row) + 1]
           THEN ret.v = Some(rows[Unwrap(selected_row) + 1]
                                 [selected_column + 1])
           ELSE ret.v = None

\* the cell of a row below the first and a column right of the first
C6_Witness ==
    /\ IsCells
    /\ selection_area_corner = None
    /\ IsSome(selected_row)
    /\ Unwrap(selected_row) > 0
    /\ selected_column > 0
    /\ ret.kind = "ok"
    /\ IsSome(ret.v)

(***************************************************************************)
(* C7  The extend keys.                                                    *)
(***************************************************************************)
\* the anchor an extend key starts from: the rectangle's, or the cursor when
\* there was no rectangle (row 0 when no row was selected)
AnchorBefore ==
    IF pre.selection_area_corner = None
    THEN <<pre.selected_column,
           IF pre.selected_row = None THEN 0 ELSE Unwrap(pre.selected_row)>>
    ELSE Unwrap(pre.selection_area_corner)

\* the greatest index of a Vec of n elements, 0 for an empty one
LastIndex(n) == IF n = 0 THEN 0 ELSE n - 1

\* C7: an extend key (H, L on the column axis, K, J on the row axis) starts
\* from the existing anchor, or from the cursor when there is no rectangle,
\* and moves the one requested coordinate by one step, not below 0 and not
\* beyond the last column / row; the other coordinate of the anchor and the
\* cursor are unchanged.
C7_ExtendMovesAnchor ==
    IsEvent({"H", "L", "K", "J"}) =>
        /\ selected_column = pre.selected_column
        /\ selected_row = pre.selected_row
        /\ IsSome(selection_area_corner)
        /\ LET x == AnchorBefore[1]
               y == AnchorBefore[2]
               after == Unwrap(selection_area_corner)
           IN /\ op.key = "H" =>
                    after = <<IF x = 0 THEN 0 ELSE x - 1, y>>
              /\ op.key = "L" =>
                    after = <<IF x + 1 > LastIndex(Len(headers))
                              THEN LastIndex(Len(headers)) ELSE x + 1, y>>
              /\ op.key = "K" =>
                    after = <<x, IF y = 0 THEN 0 ELSE y - 1>>
              /\ op.key = "J" =>
                    after = <<x, IF y + 1 > LastIndex(Len(rows))
                                 THEN LastIndex(Len(rows)) ELSE y + 1>>

\* the first extend key, pressed away from the origin: the rectangle is
\* anchored at the cursor and moved one column right
C7_Witness ==
    /\ IsEvent({"L"})
    /\ pre.selection_area_corner = None
    /\ pre.selected_column > 0
    /\ IsSome(pre.selected_row)
    /\ Unwrap(pre.selected_row) > 0
    /\ selection_area_corner =
           Some(<<pre.selected_column + 1, Unwrap(pre.selected_row)>>)

(***************************************************************************)
(* C8  The column keys and the rectangle.                                  *)
(***************************************************************************)
\* C8: after h or l on a non-empty grid the rectangle is cleared, at every
\* cursor column and for every prior rectangle.
C8_ColumnKeysClear ==
    (IsEvent({"h", "l"}) /\ NonEmptyGrid) => selection_area_corner = None

\* what the code does: h and l clear the rectangle when they move the cursor
C8_ColumnMovesClear ==
    (IsEvent({"h", "l"}) /\ selected_column # pre.selected_column) =>
        selection_area_corner = None

(***************************************************************************)
(* C9  The row keys and the rectangle.                                     *)
(***************************************************************************)
\* C9: after j, k, Ctrl-d, Ctrl-u, g or G the rectangle is cleared, in every
\* reachable state, whatever the grid size.
C9_RowKeysClear ==
    IsEvent({"j", "k", "Ctrl-d", "Ctrl-u", "g", "G"}) =>
        selection_area_corner = None

\* what the code does: the six keys clear the rectangle on a grid with rows,
\* and j, k, Ctrl-d, Ctrl-u on every grid
C9_RowKeysClearOnRows ==
    /\ (IsEvent({"j", "k", "Ctrl-d", "Ctrl-u", "g", "G"}) /\ rows # <<>>) =>
           selection_area_corner = None
    /\ IsEvent({"j", "k", "Ctrl-d", "Ctrl-u"}) => selection_area_corner = None

(***************************************************************************)
(* C10  The navigation keys clamp.                                         *)
(***************************************************************************)
\* C10: with the cursor at (c, r) on a grid with rows, j / Ctrl-d set the row
\* to min(r + s, rows.len() - 1) and k / Ctrl-u to max(r - s, 0), s = 1 / 10;
\* g sets it to 0 and G to rows.len() - 1; l sets the column to
\* min(c + 1, headers.len() - 1) and h to max(c - 1, 0); each key leaves the
\* other axis unchanged; on a grid with no rows each of them leaves the row
\* (None) and the column unchanged.
C10_MovesClamp ==
    IsEvent({"h", "j", "k", "l", "Ctrl-d", "Ctrl-u", "g", "G"}) =>
        IF rows = <<>>
        THEN /\ selected_row = None
             /\ pre.selected_row = None
             /\ selected_column = pre.selected_column
        ELSE LET c == pre.selected_column
                 r == Unwrap(pre.selected_row)
                 s == IF op.key \in {"Ctrl-d", "Ctrl-u"} THEN 10 ELSE 1
             IN /\ op.key \in {"j", "Ctrl-d"} =>
                      /\ selected_row = Some(Least(r + s, Len(rows) - 1))
                      /\ selected_column = c
                /\ op.key \in {"k", "Ctrl-u"} =>
                      /\ selected_row = Some(Greatest(r - s, 0))
                      /\ selected_column = c
                /\ op.key = "g" =>
                      /\ selected_row = Some(0)
                      /\ selected_column = c
                /\ op.key = "G" =>
                      /\ selected_row = Some(Len(rows) - 1)
                      /\ selected_column = c
                /\ op.key = "l" =>
                      /\ selected_column =
                             IF headers = <<>> THEN c
                             ELSE Least(c + 1, Len(headers) - 1)
                      /\ selected_row = pre.selected_row
                /\ op.key = "h" =>
                      /\ selected_column = Greatest(c - 1, 0)
                      /\ selected_row = pre.selected_row

\* a page-down by a full step that was not clamped
C10_Witness ==
    /\ IsEvent({"Ctrl-d"})
    /\ IsSome(pre.selected_row)
    /\ selected_row = Some(Unwrap(pre.selected_row) + PageLines)
    /\ Unwrap(selected_row) < Len(rows) - 1

(***************************************************************************)
(* Reachability of the cases the failing properties are about.            *)
(***************************************************************************)
\* the example grid at viewport width 5, the cursor in column 0 and no
\* rectangle: the band returned is [1, 2)
C2_NarrowViewport ==
    /\ IsWidths
    /\ headers = GridExample.headers
    /\ rows = GridExample.rows
    /\ op.area_width = 5
    /\ selection_area_corner = None
    /\ selected_column = 0
    /\ ret.kind = "ok"
    /\ ret.v.far_left = 1
    /\ ret.v.far_right = 2
    /\ column_page_start = 1

\* the band is built around the anchor's column and leaves the cursor out
C2_BandAroundAnchor ==
    /\ IsWidths
    /\ NonEmptyGrid
    /\ selection_area_corner # None
    /\ ret.kind = "ok"
    /\ ret.v.far_left <= selected_column_index
    /\ selected_column_index < ret.v.far_right
    /\ selected_column < ret.v.far_left

(***************************************************************************)
(* C11  What event() reports for a key.                                    *)
(***************************************************************************)
\* the twelve keys the match of event() has an arm for
TableKeys ==
    {"h", "j", "k", "l", "Ctrl-d", "Ctrl-u", "g", "G", "H", "J", "K", "L"}

\* C11: event() returns Consumed for each of the twelve keys h, j, k, l,
\* Ctrl-d, Ctrl-u, g, G, H, J, K, L and NotConsumed for every other key.
C11_KeysConsumed ==
    (op.name = "event" /\ ret.kind = "ok") =>
        ret.v = IF op.key \in TableKeys THEN Consumed ELSE NotConsumed

\* the key j moved the cursor one row down and was reported NotConsumed
C11_MoveDownNotConsumed ==
    /\ IsEvent({"j"})
    /\ IsSome(pre.selected_row)
    /\ selected_row = Some(Unwrap(pre.selected_row) + 1)
    /\ ret = Ok(NotConsumed)

(***************************************************************************)
(* C17  The width computation on a grid with no rows.                      *)
(***************************************************************************)
\* C17: on a grid with no rows, every width computation, at every viewport
\* width and in every reachable selection state, returns index 0 with empty
\* visible headers, visible rows and constraints, does not panic and leaves
\* column_page_start unchanged.
C17_NoRowsEmptyResult ==
    (IsWidths /\ rows = <<>>) =>
        /\ ret.kind = "ok"
        /\ ret.v.index = 0
        /\ ret.v.headers = <<>>
        /\ ret.v.rows = <<>>
        /\ ret.v.constraints = <<>>
        /\ column_page_start = pre.column_page_start

\* a width computation on a grid with headers and no rows, a rectangle being
\* anchored right of the cursor, at a positive viewport width
C17_Witness ==
    /\ IsWidths
    /\ rows = <<>>
    /\ headers # <<>>
    /\ selection_area_corner # None
    /\ Unwrap(selection_area_corner)[1] > selected_column
    /\ op.area_width > 0
    /\ ret.kind = "ok"

(***************************************************************************)
(* C18  Totality of the operations.                                        *)
(***************************************************************************)
\* every row has exactly headers.len() cells
WellFormedGrid == \A k \in 1..Len(rows) : Len(rows[k]) = Len(headers)

\* C18: on a well-formed grid (grids with no headers or no rows included) no
\* key handler, no selected_cells and no calculate_cell_widths, in any
\* reachable state and at any viewport width, panics.
C18_OperationsTotal == WellFormedGrid => ret.kind = "ok"

\* the width computation panicked on a grid of one row with no cells under no
\* headers
C18_NoHeadersWidthsPanic ==
    /\ IsWidths
    /\ headers = <<>>
    /\ rows = << <<>> >>
    /\ ret = Panic

(***************************************************************************)
(* C19  The window start and the cursor column.                            *)
(***************************************************************************)
\* C19: after every width computation on a non-empty grid, with or without a
\* rectangle, column_page_start <= selected_column.
C19_PageStartAtMostCursor ==
    (IsWidths /\ NonEmptyGrid /\ ret.kind = "ok") =>
        column_page_start <= selected_column

\* no rectangle is set and the width computation left the window start right
\* of the cursor column
C19_PageStartPastCursor ==
    /\ IsWidths
    /\ NonEmptyGrid
    /\ ret.kind = "ok"
    /\ selection_area_corner = None
    /\ column_page_start = selected_column + 1

(***************************************************************************)
(* C20  The band while the cursor moves inside it.                         *)
(***************************************************************************)
\* a width computation, a column key (h or l) that moved the cursor, and a
\* width computation at the same viewport width have just happened
MovedBetweenWidths == drawn.kind = "band" /\ drawn.before # <<>>
\* the band of the first of the two computations
PreviousBand == drawn.before[1]
\* the right end of the columns of fixed width of a band
FixedEnd(b) == IF b.flexible THEN b.far_right - 1 ELSE b.far_right

\* C20 as stated: when a width computation at width w returned the band
\* [far_left, far_right), a column key then moved the cursor to a column of
\* that band, its trailing flexible column included, the next computation at
\* w returns the same far_left (far_left changes only when the cursor left
\* the band).
C20_StableInsideBand ==
    (/\ MovedBetweenWidths
     /\ PreviousBand.far_left <= selected_column
     /\ selected_column < PreviousBand.far_right) =>
        drawn.far_left = PreviousBand.far_left

\* C20 amended: when a width computation at width w returned the band
\* [far_left, far_right), a column key then moved the cursor to one of the
\* columns of fixed width of that band (not its trailing flexible column),
\* the next computation at w returns the same far_left; far_left changes
\* only when the new cursor column is the flexible column or lies outside
\* the band.
C20_StableInsideFixedColumns ==
    (/\ MovedBetweenWidths
     /\ PreviousBand.far_left <= selected_column
     /\ selected_column < FixedEnd(PreviousBand)) =>
        drawn.far_left = PreviousBand.far_left

\* key l moved the cursor to a column of fixed width of a band that does not
\* start at column 0, and the band was kept
C20_Witness ==
    /\ MovedBetweenWidths
    /\ pre.selection_area_corner = None
    /\ PreviousBand.far_left > 0
    /\ PreviousBand.far_left < selected_column
    /\ selected_column < FixedEnd(PreviousBand)
    /\ drawn.far_left = PreviousBand.far_left
    /\ drawn.far_right = PreviousBand.far_right

\* the cursor moved to the flexible column of the band and the window start
\* moved to the right
C20_FlexibleColumnRepaged ==
    /\ MovedBetweenWidths
    /\ PreviousBand.flexible
    /\ selected_column = PreviousBand.far_right - 1
    /\ PreviousBand.far_left < selected_column
    /\ drawn.far_left > PreviousBand.far_left

(***************************************************************************)
(* Helpers of the properties of the popup and of the dialog.               *)
(***************************************************************************)
IsCompletionKey(keys) == op.name = "completion.event" /\ op.key \in keys
MoveKeys == {key_config.move_down, key_config.move_up}
\* the number of filtered candidates (no key changes it)
FilteredCount == Len(filterd_candidates)

(***************************************************************************)
(* C12  The selection cycles through the filtered candidates.              *)
(***************************************************************************)
\* C12: when the filtered list has n >= 1 entries, the down key moves the
\* selection index i to (i + 1) mod n and the up key to (i - 1) mod n, and
\* after any sequence of word updates and up / down keys the index is < n.
C12_SelectionCycles ==
    FilteredCount >= 1 =>
        /\ IsSome(state)
        /\ Unwrap(state) \in 0..(FilteredCount - 1)
        /\ IsCompletionKey({key_config.move_down}) =>
               /\ ret = Ok(Consumed)
               /\ state = Some((Unwrap(pre.state) + 1) % FilteredCount)
        /\ IsCompletionKey({key_config.move_up}) =>
               /\ ret = Ok(Consumed)
               /\ state = Some((Unwrap(pre.state) - 1) % FilteredCount)

\* the up key on the first of two candidates selected the last one
C12_Witness ==
    /\ IsCompletionKey({key_config.move_up})
    /\ FilteredCount = 2
    /\ pre.state = Some(0)
    /\ state = Some(1)

\* the down key on the last of two candidates selected the first one
C12_WrapsToFirst ==
    /\ IsCompletionKey({key_config.move_down})
    /\ FilteredCount = 2
    /\ pre.state = Some(1)
    /\ state = Some(0)

(***************************************************************************)
(* C13  The up and down keys on an empty filtered list.                    *)
(***************************************************************************)
\* C13: when the filtered list is empty (the word is empty, matches no
\* reserved word, or no update has happened yet) an up or down key does not
\* panic on an arithmetic overflow and leaves the selection as it was.
C13_EmptyListNoOp ==
    (IsCompletionKey(MoveKeys) /\ FilteredCount = 0) =>
        /\ ret.kind = "ok"
        /\ state = pre.state

\* a build with overflow checks: the down key after update("x") panicked
C13_DownPanics ==
    /\ IsCompletionKey({key_config.move_down})
    /\ overflow_checks
    /\ word = <<"x">>
    /\ pre.state = Some(0)
    /\ ret = Panic

\* a build without overflow checks: the up key after update("") selected
\* index usize::MAX
C13_UpWraps ==
    /\ IsCompletionKey({key_config.move_up})
    /\ ~overflow_checks
    /\ word = <<>>
    /\ pre.state = Some(0)
    /\ state = Some(usize_MAX)
    /\ ret = Ok(Consumed)

\* no update has happened yet: the down key selected index 0 of no candidate
C13_FirstKeySelects ==
    /\ IsCompletionKey({key_config.move_down})
    /\ candidates = <<>>
    /\ pre.state = None
    /\ state = Some(0)

(***************************************************************************)
(* C14  update(word).                                                      *)
(***************************************************************************)
\* the characters a and b are the same letter in either case
SameLetter(a, b) ==
    \/ CharToUppercase(a) = CharToUppercase(b)
    \/ CharToLowercase(a) = CharToLowercase(b)

\* w is a prefix of the reserved word c, letter case ignored
PrefixIgnoringCase(w, c) ==
    /\ Len(w) <= Len(c)
    /\ \A k \in 1..Len(w) : SameLetter(w[k], c[k])

\* C14: after update(word) the filtered candidates are exactly the reserved
\* words IN, AND, OR, NOT, NULL, IS, in this order, of which word is a prefix
\* ignoring letter case, none for the empty word, and the selection is index
\* 0 whatever it was before.
C14_UpdateFilters ==
    op.name = "update" =>
        /\ word = op.word
        /\ filterd_candidates =
               IF word = <<>> THEN <<>>
               ELSE SelectSeq(<< <<"I", "N">>, <<"A", "N", "D">>,
                                 <<"O", "R">>, <<"N", "O", "T">>,
                                 <<"N", "U", "L", "L">>, <<"I", "S">> >>,
                              LAMBDA c : PrefixIgnoringCase(word, c))
        /\ state = Some(0)
        /\ ret = Ok(Unit)

\* update("n") while the second candidate of another word was selected: the
\* candidates are NOT and NULL and the selection is back at index 0
C14_Witness ==
    /\ op.name = "update"
    /\ pre.state = Some(1)
    /\ pre.word # word
    /\ word = <<"n">>
    /\ filterd_candidates = << <<"N", "O", "T">>, <<"N", "U", "L", "L">> >>
    /\ state = Some(0)

(***************************************************************************)
(* C15  string_to_be_completed.                                            *)
(***************************************************************************)
\* the String s without its first n characters
DropChars(s, n) == SubSeq(s, n + 1, Len(s))

\* C15: string_to_be_completed returns the selected filtered candidate
\* without its first len(word) characters (as many as the word has),
\* followed by one space ("D " for the word "AN" and the candidate "AND"),
\* and None when nothing is selected, the filtered list is empty or the
\* selection is not an index of it.
C15_CompletedTail ==
    op.name = "string_to_be_completed" =>
        /\ ret.kind = "ok"
        /\ ret.v =
               IF \/ state = None
                  \/ FilteredCount = 0
                  \/ Unwrap(state) \notin 0..(FilteredCount - 1)
               THEN None
               ELSE Some(DropChars(filterd_candidates[Unwrap(state) + 1],
                                   Len(word))
                         \o <<" ">>)
        /\ (/\ word = <<"A", "N">>
            /\ filterd_candidates = << <<"A", "N", "D">> >>
            /\ state = Some(0))
               => ret.v = Some(<<"D", " ">>)

\* C15 for the words made of one-byte characters only
C15_CompletedTailOfAsciiWord ==
    str_len(word) = Len(word) => C15_CompletedTail

\* the word is the dotless i, IN is selected, and " " is returned
C15_TwoByteLetter ==
    /\ op.name = "string_to_be_completed"
    /\ word = <<DotlessI>>
    /\ state = Some(0)
    /\ filterd_candidates = << <<"I", "N">>, <<"I", "S">> >>
    /\ ret = Ok(Some(<<" ">>))

\* the word AN, AND is selected, and "D " is returned
C15_ExampleRead ==
    /\ op.name = "string_to_be_completed"
    /\ word = <<"A", "N">>
    /\ ret = Ok(Some(<<"D", " ">>))

(***************************************************************************)
(* C16  The error dialog takes no key.                                     *)
(***************************************************************************)
\* C16: event() of the dialog returns NotConsumed for every key and leaves
\* the message as it is, set or not; set(m) stores Some(m), and no other
\* operation of the popup or the dialog changes the message.
C16_DialogKeepsMessage ==
    /\ op.name = "error.event" =>
           /\ ret = Ok(NotConsumed)
           /\ error = pre.error
    /\ op.name = "error.set" => error = Some(op.error)
    /\ op.name \in {"update", "completion.event", "string_to_be_completed"}
           => error = pre.error

\* a key was sent to the dialog while a message was set
C16_Witness ==
    /\ op.name = "error.event"
    /\ error # None
    /\ pre.error = error
    /\ ret = Ok(NotConsumed)

(***************************************************************************)
(* C21  The cursor in the last column.                                     *)
(***************************************************************************)
\* C21: when the cursor is in the last column and no rectangle is set, a
\* width computation on a non-empty grid emits no flexible column: every
\* constraint is a Length, and the band ends at the edge of the grid,
\* far_right = headers.len().
C21_LastColumnNoFlexible ==
    (/\ IsWidths
     /\ NonEmptyGrid
     /\ selection_area_corner = None
     /\ selected_column = Len(headers) - 1) =>
        /\ ret.kind = "ok"
        /\ \A k \in 1..Len(ret.v.constraints) :
               ret.v.constraints[k].kind = "Length"
        /\ ret.v.far_right = Len(headers)

\* the cursor is in the last of several columns and the band shows two
\* columns or more, not all of them
C21_Witness ==
    /\ IsWidths
    /\ NonEmptyGrid
    /\ selection_area_corner = None
    /\ selected_column = Len(headers) - 1
    /\ ret.kind = "ok"
    /\ ret.v.far_left > 0
    /\ ret.v.far_right - ret.v.far_left >= 2
    /\ Len(ret.v.constraints) = ret.v.far_right - ret.v.far_left + 1

(***************************************************************************)
(* C22  The parts of the returned tuple agree.                             *)
(***************************************************************************)
RECURSIVE Decimal(_)
\* the decimal digits of a natural number, the most significant first
Decimal(n) ==
    IF n < 10 THEN <<n>> ELSE Decimal(n \div 10) \o <<n % 10>>

\* the decimal string of a natural number
DecimalString(n) ==
    [k \in 1..Len(Decimal(n)) |->
        CHOOSE ch \in {"0", "1", "2", "3", "4", "5", "6", "7", "8", "9"} :
            Digit(Decimal(n)[k]) = ch]

\* C22: after a width computation on a non-empty grid the visible headers
\* are a blank entry followed by headers[far_left..far_right], the visible
\* row k (0-based) is the decimal string of k + 1 followed by the cells of
\* row k in the columns far_left..far_right, and there is exactly one
\* constraint per visible header, the first being the Length of the
\* row-number column: the number of digits of rows.len() + 1.
C22_OutputsAgree ==
    (IsWidths /\ NonEmptyGrid /\ ret.kind = "ok") =>
        LET l == ret.v.far_left
            r == ret.v.far_right
        IN /\ l <= r
           /\ r <= Len(headers)
           /\ Len(ret.v.headers) = r - l + 1
           /\ ret.v.headers[1] = <<>>
           /\ \A c \in 1..(r - l) : ret.v.headers[c + 1] = headers[l + c]
           /\ Len(ret.v.rows) = Len(rows)
           /\ \A k \in 1..Len(rows) :
                  /\ Len(ret.v.rows[k]) = r - l + 1
                  /\ ret.v.rows[k][1] = DecimalString(k)
                  /\ \A c \in 1..(r - l) :
                         ret.v.rows[k][c + 1] = rows[k][l + c]
           /\ Len(ret.v.constraints) = Len(ret.v.headers)
           /\ ret.v.constraints[1] = Length(Len(Decimal(Len(rows) + 1)))

\* a band of two columns or more that starts right of column 0 and ends
\* with a flexible column
C22_Witness ==
    /\ IsWidths
    /\ NonEmptyGrid
    /\ ret.kind = "ok"
    /\ ret.v.far_left > 0
    /\ ret.v.far_right - ret.v.far_left >= 2
    /\ ret.v.constraints[Len(ret.v.constraints)].kind = "Min"
    /\ Len(ret.v.constraints) = Len(ret.v.headers)

\* the row-number column of the tall grid is two cells wide
C22_TwoDigitRowNumbers ==
    /\ IsWidths
    /\ Len(rows) >= 10
    /\ ret.kind = "ok"
    /\ ret.v.constraints[1] = Length(2)
    /\ ret.v.rows[10][1] = <<"1", "0">>

(***************************************************************************)
(* C26  The columns of fixed width fit the viewport.                       *)
(***************************************************************************)
\* the Length constraints of the data columns (every constraint but the
\* first, and but the trailing Min)
FixedLengths(constraints) ==
    SelectSeq(Tail(constraints), LAMBDA c : c.kind = "Length")

RECURSIVE SumLengths(_)
SumLengths(cs) == IF cs = <<>> THEN 0 ELSE Head(cs).v + SumLengths(Tail(cs))

\* C26: after a width computation on a non-empty grid, at every viewport
\* width, the widths of the Length data columns plus one separator for each
\* of them sum to at most the viewport width minus the width of the
\* row-number column (0 when that difference is negative).
C26_FixedColumnsFit ==
    (IsWidths /\ NonEmptyGrid /\ ret.kind = "ok") =>
        LET fixed == FixedLengths(ret.v.constraints) IN
        SumLengths(fixed) + Len(fixed)
            <= SatSub(op.area_width, ret.v.constraints[1].v)

\* three columns of fixed width before a flexible one that fill the
\* viewport but for one unit
C26_Witness ==
    /\ IsWidths
    /\ NonEmptyGrid
    /\ ret.kind = "ok"
    /\ Len(FixedLengths(ret.v.constraints)) = 3
    /\ ret.v.constraints[Len(ret.v.constraints)].kind = "Min"
    /\ SumLengths(FixedLengths(ret.v.constraints)) + 3
           = op.area_width - ret.v.constraints[1].v - 1

(***************************************************************************)
(* C27  The width of a column.                                             *)
(***************************************************************************)
\* the greatest display width of the cells of a column (0-based)
WidestCell(column) ==
    CHOOSE w \in {Width(rows[k][column + 1]) : k \in 1..Len(rows)} :
        \A k \in 1..Len(rows) : Width(rows[k][column + 1]) <= w

\* clamp(max(header width, widest cell), 3, 20)
ContentWidth(column) ==
    LET m == Greatest(Width(headers[column + 1]), WidestCell(column)) IN
    IF m < 3 THEN 3 ELSE IF m > 20 THEN 20 ELSE m

\* C27: the k-th Length data column of a width computation is the column
\* far_left + k - 1 of the grid and its Length is clamp(max(display width of
\* its header, greatest display width of its cells), 3, 20), a number of
\* [3, 20], for the columns added leftwards and rightwards alike.
C27_LengthIsClampedContent ==
    (IsWidths /\ NonEmptyGrid /\ ret.kind = "ok") =>
        LET fixed == FixedLengths(ret.v.constraints) IN
        \A k \in 1..Len(fixed) :
            /\ ret.v.far_left + k - 1 < Len(headers)
            /\ fixed[k].v = ContentWidth(ret.v.far_left + k - 1)
            /\ fixed[k].v \in 3..20

\* a column as wide as its header (6) added leftwards and a column raised to
\* 3 added rightwards, both of fixed width
C27_Witness ==
    /\ IsWidths
    /\ headers = GridClamped.headers
    /\ rows = GridClamped.rows
    /\ ret.kind = "ok"
    /\ selected_column_index = 0
    /\ FixedLengths(ret.v.constraints) = <<Length(6), Length(3)>>

\* a column cut at 20 and of fixed width
C27_CutAtMaxLength ==
    /\ IsWidths
    /\ NonEmptyGrid
    /\ ret.kind = "ok"
    /\ \E k \in 1..Len(FixedLengths(ret.v.constraints)) :
           /\ FixedLengths(ret.v.constraints)[k] = Length(20)
           /\ WidestCell(ret.v.far_left + k - 1) > 20

\* a column of double-width characters, two cells each
C27_DoubleWidthCells ==
    /\ IsWidths
    /\ headers = GridWide.headers
    /\ rows = GridWide.rows
    /\ ret.kind = "ok"
    /\ ret.v.far_left = 0
    /\ FixedLengths(ret.v.constraints) # <<>>
    /\ FixedLengths(ret.v.constraints)[1] = Length(4)

(***************************************************************************)
(* C24  What each operation writes.                                        *)
(***************************************************************************)
\* C24: no key event changes column_page_start; a width computation changes
\* nothing but column_page_start (selected_row, selected_column,
\* selection_area_corner, headers, rows and eod keep their values); end()
\* sets eod to true and changes nothing else.
C24_DisjointWrites ==
    [][/\ op'.name = "event" => column_page_start' = column_page_start
       /\ op'.name = "calculate_cell_widths" =>
              UNCHANGED <<selected_row, selected_column,
                          selection_area_corner, headers, rows, eod>>
       /\ op'.name = "end" =>
              /\ eod' = TRUE
              /\ UNCHANGED <<selected_row, selected_column,
                             selection_area_corner, column_page_start,
                             headers, rows>>]_vars

\* end() was called while a rectangle was set and the window start was not 0
C24_Witness ==
    /\ op.name = "end"
    /\ eod
    /\ ~pre.eod
    /\ selection_area_corner # None
    /\ column_page_start > 0

\* a width computation moved the window start while a rectangle was set
C24_WindowMoved ==
    /\ IsWidths
    /\ ret.kind = "ok"
    /\ selection_area_corner # None
    /\ column_page_start # pre.column_page_start

(***************************************************************************)
(* C25  The anchor of the rectangle.                                       *)
(***************************************************************************)
\* C25: in every state reached by key events, an anchor (x, y) that is set
\* names a cell of the grid: x < headers.len() and y < rows.len(); there is
\* no rectangle on a grid with no rows.
C25_AnchorInGrid ==
    selection_area_corner # None =>
        /\ Unwrap(selection_area_corner)[1] < Len(headers)
        /\ Unwrap(selection_area_corner)[2] < Len(rows)

\* key L on the grid with two headers and no rows set the anchor (1, 0)
C25_AnchorWithoutRows ==
    /\ IsEvent({"L"})
    /\ headers # <<>>
    /\ rows = <<>>
    /\ pre.selection_area_corner = None
    /\ selection_area_corner = Some(<<1, 0>>)

(***************************************************************************)
(* C23  The cells highlighted by draw.                                     *)
(***************************************************************************)
IsDraw == op.name = "draw"

\* the cell in row r and column c of the grid (0-based) is the cursor cell,
\* or a cell of the rectangle spanned by the anchor and the cursor
InSelection(r, c) ==
    /\ IsSome(selected_row)
    /\ IF selection_area_corner = None
       THEN r = Unwrap(selected_row) /\ c = selected_column
       ELSE LET x == Unwrap(selection_area_corner)[1]
                y == Unwrap(selection_area_corner)[2]
            IN /\ Least(x, selected_column) <= c
               /\ c <= Greatest(x, selected_column)
               /\ Least(y, Unwrap(selected_row)) <= r
               /\ r <= Greatest(y, Unwrap(selected_row))

\* C23: in a frame, the visible cell in row r and band column c is
\* highlighted exactly when c >= 1 and the cell (r, far_left + c - 1) of the
\* grid is the cursor cell (no rectangle) or lies in the rectangle spanned
\* by the anchor and the cursor; band column 0 is never highlighted.
C23_HighlightIsSelection ==
    (IsDraw /\ NonEmptyGrid /\ ret.kind = "ok") =>
        \A r \in 0..(Len(rows) - 1) :
            \A c \in 0..(ret.v.far_right - ret.v.far_left) :
                <<r, c>> \in ret.v.highlighted
                    <=> (c >= 1 /\ InSelection(r, ret.v.far_left + c - 1))

\* C23 in the frames whose band holds the column it was built around
C23_HighlightInsideBand ==
    (ret.kind = "ok" /\ IsDraw /\ ret.v.far_left <= selected_column_index)
        => C23_HighlightIsSelection

\* no rectangle, the cursor in column 0 and the band [1, 2): the cell of
\* column 1 in the cursor row is highlighted
C23_NeighbourHighlighted ==
    /\ IsDraw
    /\ NonEmptyGrid
    /\ ret.kind = "ok"
    /\ selection_area_corner = None
    /\ selected_column = 0
    /\ ret.v.far_left = 1
    /\ <<Unwrap(selected_row), 1>> \in ret.v.highlighted

====
